---- MODULE Spec2Model ----
(***************************************************************************)
(* Model of the Sengled Wi-Fi bulb client (src/pkg/client.py): the         *)
(* SengledClient session / MQTT channel / device directory and the         *)
(* SengledBulb proxy with its attribute store.                             *)
(*                                                                         *)
(* Python strings that the code only compares are TLA+ strings; strings    *)
(* the code parses (attribute values, port numbers) are sequences of       *)
(* one-character strings, so that int(s, 10) is computed, not assumed.     *)
(***************************************************************************)
EXTENDS Integers, Sequences, FiniteSets, TLC

VARIABLES
    jsession_id,    \* SengledClient._jsession_id
    mqtt_server,    \* SengledClient._mqtt_server
    mqtt_client,    \* SengledClient._mqtt_client (the paho client object)
    devices,        \* SengledClient._devices (list of SengledBulb)
    subscribed,     \* SengledClient._subscribed (topic -> handler)
    last,           \* observation of the last call: result, I/O, callbacks
    running,        \* executions of on_message in progress on loop threads
    caller          \* where the caller's thread is inside login()

vars ==
    <<jsession_id, mqtt_server, mqtt_client, devices, subscribed, last,
      running, caller>>

-----------------------------------------------------------------------------
(* Bounds of the model *)

\* longest device list a directory response carries
MaxList == 2
\* most status entries in one inbound MQTT payload
MaxEntries == 2

-----------------------------------------------------------------------------
(* Python values *)

None == "None"

\* an empty JSON object / dict
EmptyObj == <<>>

Has(obj, key) == key \in DOMAIN obj

Digits == {"0", "1", "2", "3", "4", "5", "6", "7", "8", "9"}

DigitVal(c) ==
    CASE c = "0" -> 0 [] c = "1" -> 1 [] c = "2" -> 2 [] c = "3" -> 3
      [] c = "4" -> 4 [] c = "5" -> 5 [] c = "6" -> 6 [] c = "7" -> 7
      [] c = "8" -> 8 [] c = "9" -> 9

RECURSIVE DigitsValue(_)
DigitsValue(s) ==
    IF s = <<>> THEN 0
    ELSE 10 * DigitsValue(SubSeq(s, 1, Len(s) - 1)) + DigitVal(s[Len(s)])

\* int(s, 10): the number, or ValueError when s is empty or has a non-digit
ParseInt(s) ==
    IF s /= <<>> /\ \A i \in 1..Len(s) : s[i] \in Digits
    THEN [int |-> DigitsValue(s)]
    ELSE [exc |-> "ValueError"]

\* the strings of the model, as character sequences
S1  == <<"1">>
S55 == <<"5", "5">>
SX  == <<"x">>

-----------------------------------------------------------------------------
(* SengledBulb: a proxy is a record                                         *)
(*   [inst, uuid, category, type_code, attributes, callback]                *)
(* inst is the identity of the Python object; attributes is the list of     *)
(* [name, value] dicts; callback is Unset until                             *)
(* set_attribute_update_callback has run (__init__ does not create it).     *)

Unset == "unset"

\* index of the first attribute called n, 0 when there is none
FirstIndex(attrs, n) ==
    IF \E i \in 1..Len(attrs) : attrs[i].name = n
    THEN CHOOSE i \in 1..Len(attrs) :
            /\ attrs[i].name = n
            /\ \A j \in 1..(i - 1) : attrs[j].name /= n
    ELSE 0

\* the default of an integer accessor replaced by 1
IntAttrDefaultOne(attrs, n) ==
    LET i == FirstIndex(attrs, n)
    IN  IF i = 0 THEN [int |-> 1] ELSE ParseInt(attrs[i].value)

\* for attr in self._attributes: if attr['name'] == n: return int(attr['value'], 10)
IntAttr(attrs, n) ==
    LET i == FirstIndex(attrs, n)
    IN  IF i = 0 THEN [int |-> 0] ELSE ParseInt(attrs[i].value)

\* ... return attr['value']
StrAttr(attrs, n) ==
    LET i == FirstIndex(attrs, n)
    IN  IF i = 0 THEN [str |-> <<>>] ELSE [str |-> attrs[i].value]

\* ... return attr['value'] == '1'
BoolAttr(attrs, n) ==
    LET i == FirstIndex(attrs, n)
    IN  IF i = 0 THEN [bool |-> FALSE] ELSE [bool |-> (attrs[i].value = S1)]

brightness(p)         == IntAttr(p.attributes, "brightness")
consumption_time(p)   == IntAttr(p.attributes, "consumptionTime")
rssi(p)               == IntAttr(p.attributes, "deviceRssi")
identify_no(p)        == StrAttr(p.attributes, "identifyNO")
ip(p)                 == StrAttr(p.attributes, "ip")
name(p)               == StrAttr(p.attributes, "name")
online(p)             == BoolAttr(p.attributes, "online")
product_code(p)       == StrAttr(p.attributes, "product_code")
save_flag(p)          == BoolAttr(p.attributes, "save_flag")
start_time(p)         == StrAttr(p.attributes, "start_time")
support_attributes(p) == StrAttr(p.attributes, "support_attributes")
switch(p)             == BoolAttr(p.attributes, "switch")
time_zone(p)          == StrAttr(p.attributes, "time_zone")
type_code(p) ==
    IF FirstIndex(p.attributes, "type_code") = 0
    THEN [str |-> p.type_code]
    ELSE StrAttr(p.attributes, "type_code")
version(p)            == StrAttr(p.attributes, "version")
uuid(p)               == [id |-> p.uuid]
category(p)           == [id |-> p.category]

\* the @property read accessors of the class
PropertyNames ==
    {"brightness", "consumption_time", "rssi", "identify_no", "ip", "name",
     "online", "product_code", "save_flag", "start_time",
     "support_attributes", "switch", "time_zone", "type_code", "version",
     "uuid", "category"}

\* the methods of the class
MethodNames ==
    {"set_attribute_update_callback", "toggle", "set_brightness",
     "_update_status", "_attribute_to_property", "__init__"}

\* the instance fields __init__ assigns
FieldNames == {"_client", "_uuid", "_category", "_type_code", "_attributes"}

\* hasattr(self, n): any attribute of the object, not only the accessors;
\* _attribute_update_callback exists once it has been set
HasAttrName(p, n) ==
    \/ n \in PropertyNames
    \/ n \in MethodNames
    \/ n \in FieldNames
    \/ (n = "_attribute_update_callback" /\ p.callback /= Unset)

\* getattr(self, n) for a name hasattr accepts
GetAttr(p, n) ==
    CASE n = "brightness"         -> brightness(p)
      [] n = "consumption_time"   -> consumption_time(p)
      [] n = "rssi"               -> rssi(p)
      [] n = "identify_no"        -> identify_no(p)
      [] n = "ip"                 -> ip(p)
      [] n = "name"               -> name(p)
      [] n = "online"             -> online(p)
      [] n = "product_code"       -> product_code(p)
      [] n = "save_flag"          -> save_flag(p)
      [] n = "start_time"         -> start_time(p)
      [] n = "support_attributes" -> support_attributes(p)
      [] n = "switch"             -> switch(p)
      [] n = "time_zone"          -> time_zone(p)
      [] n = "type_code"          -> type_code(p)
      [] n = "version"            -> version(p)
      [] n = "uuid"               -> uuid(p)
      [] n = "category"           -> category(p)
      [] n \in MethodNames        -> [method |-> n]
      [] OTHER                    -> [field |-> n]

\* attr_map.get(attr, attr)
AttributeToProperty(attr) ==
    CASE attr = "consumptionTime"   -> "consumption_time"
      [] attr = "deviceRssi"        -> "rssi"
      [] attr = "identifyNO"        -> "identify_no"
      [] attr = "productCode"       -> "product_code"
      [] attr = "saveFlag"          -> "save_flag"
      [] attr = "startTime"         -> "start_time"
      [] attr = "supportAttributes" -> "support_attributes"
      [] attr = "timeZone"          -> "time_zone"
      [] attr = "typeCode"          -> "type_code"
      [] OTHER                      -> attr

\* wifielement/<uuid>/status and wifielement/<uuid>/update
StatusTopic(u) == <<"wifielement", u, "status">>
UpdateTopic(u) == <<"wifielement", u, "update">>

\* the dn test forgotten
ForThisDeviceAny(p, status) == TRUE

\* "if status['dn'] != self.uuid: continue", as the test that lets it through
ForThisDevice(p, status) == status.dn = p.uuid

\* one iteration of "for status in data" in _update_status; acc carries the
\* attribute list, the observer calls made so far and a raised exception
ApplyStatus(p, acc, status) ==
    IF acc.exc /= None THEN acc
    ELSE IF ~Has(status, "type") \/ ~Has(status, "dn") THEN acc
    ELSE IF ~ForThisDevice(p, status) THEN acc
    ELSE
      LET i == FirstIndex(acc.attributes, status.type)
      IN  IF i = 0 THEN acc
          ELSE IF ~Has(status, "value") THEN [acc EXCEPT !.exc = "KeyError"]
          ELSE
            LET attrs2 == [acc.attributes EXCEPT ![i].value = status.value]
                q      == [p EXCEPT !.attributes = attrs2]
                pname  == AttributeToProperty(attrs2[i].name)
                upd    == [acc EXCEPT !.attributes = attrs2]
            IN  IF p.callback = Unset
                THEN [upd EXCEPT !.exc = "AttributeError"]
                ELSE IF ~HasAttrName(q, pname) THEN upd
                ELSE LET v == GetAttr(q, pname)
                     IN  IF Has(v, "exc")
                         THEN [upd EXCEPT !.exc = v.exc]
                         ELSE [upd EXCEPT !.notes =
                                 Append(@, [inst |-> p.inst, name |-> pname,
                                            value |-> v])]

RECURSIVE ApplyAll(_, _, _, _)
ApplyAll(p, acc, data, k) ==
    IF k > Len(data) THEN acc
    ELSE ApplyAll(p, ApplyStatus(p, acc, data[k]), data, k + 1)

\* SengledBulb._update_status(message); message is [json |-> FALSE] when
\* json.loads raises ValueError, else [json |-> TRUE, data |-> <<entries>>]
UpdateStatus(p, message) ==
    LET acc0 == [attributes |-> p.attributes, notes |-> <<>>, exc |-> None]
    IN  IF ~message.json THEN acc0
        ELSE ApplyAll(p, acc0, message.data, 1)

RECURSIVE NatStr(_)
NatStr(n) ==
    LET d == CHOOSE c \in Digits : DigitVal(c) = n % 10
    IN  IF n < 10 THEN <<d>> ELSE Append(NatStr(n \div 10), d)

\* str(level) for an int
Str(n) == IF n < 0 THEN <<"-">> \o NatStr(0 - n) ELSE NatStr(n)

Min(a, b) == IF a < b THEN a ELSE b
Max(a, b) == IF a > b THEN a ELSE b

\* the on/off values swapped
ToggleDataSwapped(p, on) ==
    [dn |-> p.uuid, type |-> "switch",
     value |-> IF on THEN <<"0">> ELSE S1, time |-> "now"]

\* the command object toggle(on) publishes
ToggleData(p, on) ==
    [dn |-> p.uuid, type |-> "switch",
     value |-> IF on THEN S1 ELSE <<"0">>, time |-> "now"]

\* the level published as given, without the clamp
BrightnessDataUnclamped(p, level) ==
    [dn |-> p.uuid, type |-> "brightness",
     value |-> Str(level), time |-> "now"]

\* the command object set_brightness(level) publishes
BrightnessData(p, level) ==
    [dn |-> p.uuid, type |-> "brightness",
     value |-> Str(Max(Min(level, 100), 0)), time |-> "now"]

-----------------------------------------------------------------------------
(* SengledClient.  The operators below take and return the client's state   *)
(* as a record S = [jsession_id, mqtt_server, mqtt_client, devices,         *)
(* subscribed, net, ret, exc]: net is the sequence of network interactions  *)
(* of the running call (the probe with its response, the authentication     *)
(* with the token it grants, the other REST requests with the session id    *)
(* they carry), ret what the call returns, exc an exception leaving it.     *)

\* self._mqtt_client = None, and the test "self._mqtt_client is None"
NoMqtt == [absent |-> TRUE]

NoClient(c) == Has(c, "absent")

\* Python truthiness of a token: None and '' are falsy
Truthy(s) == s /= None /\ s /= ""

\* __init__: the default realtime endpoint
DefaultServer ==
    [host |-> "us-mqtt.cloud.sengled.com", port |-> 443, path |-> "/mqtt"]

\* self._subscribed is a dict, kept as the sequence of its items
\* [topic, handler] in insertion order; a handler is the inst of the proxy
\* whose bound _update_status it is
Topics(d) == {d[i].topic : i \in 1..Len(d)}

Lookup(d, t) == d[CHOOSE i \in 1..Len(d) : d[i].topic = t].handler

\* d[t] = h
SetItem(d, t, h) ==
    IF t \in Topics(d)
    THEN [i \in 1..Len(d) |->
            IF d[i].topic = t THEN [topic |-> t, handler |-> h] ELSE d[i]]
    ELSE Append(d, [topic |-> t, handler |-> h])

Sent(S, call) == [S EXCEPT !.net = Append(@, call)]

Return(S, v) == [S EXCEPT !.ret = v]

\* _subscribe_mqtt(topic, callback); ok: the transport accepted the request
SubscribeMqtt(S, topic, callback, ok) ==
    IF NoClient(S.mqtt_client) THEN Return(S, "False")
    ELSE
      LET S1a == Sent(S, [call |-> "subscribe", topic |-> topic, ok |-> ok])
      IN  IF ~ok THEN Return(S1a, "False")
          ELSE Return(
                 [S1a EXCEPT !.subscribed = SetItem(@, topic, callback),
                             !.mqtt_client.subs = @ \cup {topic}],
                 "True")

\* SengledBulb.__init__(client, info), appended to self._devices by the caller
NewBulb(S, info) ==
    [inst       |-> Len(S.devices) + 1,
     uuid       |-> info.deviceUuid,
     category   |-> info.category,
     type_code  |-> info.typeCode,
     attributes |-> info.attributeList,
     callback   |-> Unset]

\* the lookup for an existing proxy left out
AddDeviceNoLookup(S, d, rejects) ==
    LET b   == NewBulb(S, d)
        t   == StatusTopic(b.uuid)
        S1a == SubscribeMqtt(S, t, b.inst, t \notin rejects)
    IN  [S1a EXCEPT !.devices = Append(@, b)]

\* one iteration of "for d in data['deviceList']" in get_devices
AddDevice(S, d, rejects) ==
    IF \E i \in 1..Len(S.devices) : S.devices[i].uuid = d.deviceUuid
    THEN S
    ELSE
      LET b   == NewBulb(S, d)
          t   == StatusTopic(b.uuid)
          S1a == SubscribeMqtt(S, t, b.inst, t \notin rejects)
      IN  [S1a EXCEPT !.devices = Append(@, b)]

RECURSIVE AddDevices(_, _, _, _)
\* the directory rebuilt from the response instead of extended
AddDevicesRebuilt(S, list, rejects, k) ==
    IF k > Len(list) THEN S
    ELSE AddDevices(AddDevice(IF k = 1 THEN [S EXCEPT !.devices = <<>>] ELSE S,
                              list[k], rejects),
                    list, rejects, k + 1)

AddDevices(S, list, rejects, k) ==
    IF k > Len(list) THEN S
    ELSE AddDevices(AddDevice(S, list[k], rejects), list, rejects, k + 1)

\* get_devices(force_update); r is the server's response to device/list.json,
\* rejects the status topics whose subscribe request the transport refuses
GetDevicesOp(S, force_update, r, rejects) ==
    IF ~Truthy(S.jsession_id) THEN Return(S, "devices")
    ELSE IF Len(S.devices) > 0 /\ ~force_update THEN Return(S, "devices")
    ELSE
      LET S1a == Sent(S, [call |-> "list", sid |-> S.jsession_id,
                          n |-> IF r.status = 200 /\ Has(r.body, "deviceList")
                                THEN Len(r.body.deviceList) ELSE 0])
      IN  IF r.status /= 200 THEN Return(S1a, "devices")
          ELSE IF ~Has(r.body, "deviceList") \/ r.body.deviceList = <<>>
          THEN Return(S1a, "devices")
          ELSE Return(AddDevices(S1a, r.body.deviceList, rejects, 1),
                      "devices")

\* _is_session_timeout(); r is the server's response to the probe
IsSessionTimeout(S, r) ==
    IF ~Truthy(S.jsession_id) THEN Return(S, "True")
    ELSE
      LET S1a == Sent(S, [call |-> "probe", resp |-> r])
      IN  IF r.status /= 200 THEN Return(S1a, "True")
          ELSE IF ~Has(r.body, "info") \/ r.body.info /= "OK"
          THEN Return(S1a, "True")
          ELSE Return(S1a, "False")

\* _get_server_info(); r is the server's response; inceptionAddr is kept as
\* urlparse splits it: netloc [host] or [host, port], and path
GetServerInfo(S, r) ==
    IF ~Truthy(S.jsession_id) THEN S
    ELSE
      LET S1a == Sent(S, [call |-> "info", sid |-> S.jsession_id])
      IN  IF r.status /= 200 THEN S1a
          ELSE IF ~Has(r.body, "inceptionAddr")
                  \/ ~Has(r.body.inceptionAddr, "netloc")
          THEN S1a
          ELSE
            LET url == r.body.inceptionAddr
            IN  IF Has(url.netloc, "port")
                THEN
                  LET n == ParseInt(url.netloc.port)
                  IN  IF Has(n, "exc")
                      THEN [S1a EXCEPT !.mqtt_server.host = url.netloc.host,
                                       !.exc = n.exc]
                      ELSE [S1a EXCEPT !.mqtt_server =
                              [host |-> url.netloc.host, port |-> n.int,
                               path |-> url.path]]
                ELSE [S1a EXCEPT !.mqtt_server =
                        [host |-> url.netloc.host, port |-> 443,
                         path |-> url.path]]

\* _initialize_mqtt(): a new paho client, connected to the stored endpoint,
\* its receive loop started
InitializeMqtt(S) ==
    IF ~Truthy(S.jsession_id) THEN Return(S, "False")
    ELSE
      LET c == [client_id |-> S.jsession_id,
                host      |-> S.mqtt_server.host,
                port      |-> S.mqtt_server.port,
                path      |-> S.mqtt_server.path,
                cookie    |-> S.jsession_id,
                loop      |-> TRUE,
                subs      |-> {}]
      IN  Return(Sent([S EXCEPT !.mqtt_client = c],
                      [call |-> "connect", host |-> c.host, port |-> c.port,
                       path |-> c.path, cookie |-> c.cookie,
                       client_id |-> c.client_id]),
                 "True")

RECURSIVE Resubscribe(_, _, _, _)
\* the replay starting at the second item
ResubscribeSkipsFirst(S, items, rejects, k) ==
    IF k + 1 > Len(items) THEN S
    ELSE Resubscribe(
           SubscribeMqtt(S, items[k + 1].topic,
                         Lookup(S.subscribed, items[k + 1].topic),
                         items[k + 1].topic \notin rejects),
           items, rejects, k + 2)

\* "for topic in self._subscribed: self._subscribe_mqtt(topic, ...)" over
\* the items the dict held when the loop started
Resubscribe(S, items, rejects, k) ==
    IF k > Len(items) THEN S
    ELSE Resubscribe(
           SubscribeMqtt(S, items[k].topic, Lookup(S.subscribed, items[k].topic),
                         items[k].topic \notin rejects),
           items, rejects, k + 1)

\* _reinitialize_mqtt(): loop_stop, disconnect, ws_set_options, reconnect
\* (paho reconnects to the host and port of the first connect, with the
\* client id it was created with; a clean session drops the broker-side
\* subscriptions), loop_start, then the replay of the registry
ReinitializeMqtt(S, rejects) ==
    IF NoClient(S.mqtt_client) \/ ~Truthy(S.jsession_id) THEN Return(S, "False")
    ELSE
      LET c   == [S.mqtt_client EXCEPT !.path = S.mqtt_server.path,
                                       !.cookie = S.jsession_id,
                                       !.loop = TRUE,
                                       !.subs = {}]
          S1a == Sent([S EXCEPT !.mqtt_client = c],
                      [call |-> "reconnect", host |-> c.host, port |-> c.port,
                       path |-> c.path, cookie |-> c.cookie,
                       client_id |-> c.client_id])
      IN  Return(Resubscribe(S1a, S1a.subscribed, rejects, 1), "True")

\* the session token an authentication response grants, None when it is
\* not a 200 or carries no token or an empty one
Granted(auth) ==
    IF auth.status = 200 /\ Has(auth.body, "jsessionId")
       /\ auth.body.jsessionId /= ""
    THEN auth.body.jsessionId ELSE None

\* the "not" of the probe test left out
StillValidInverted(S, P) == Truthy(S.jsession_id) /\ P.ret = "True"

\* "if self._jsession_id: if not self._is_session_timeout(): return";
\* P is the state after the probe, with its result
StillValid(S, P) == Truthy(S.jsession_id) /\ P.ret = "False"

\* the session dropped when the authentication is refused
AuthFailureClearsToken(S) == Return([S EXCEPT !.jsession_id = None], "False")

\* "return False" of a refused authentication
AuthFailure(S) == Return(S, "False")

\* login with the directory refreshed before the channel is initialized
LoginOpRefreshFirst(S, probe, auth, info, list, rejects) ==
    LET P == IF Truthy(S.jsession_id) THEN IsSessionTimeout(S, probe)
             ELSE Return(S, "True")
    IN  IF StillValid(S, P) THEN Return(P, None)
        ELSE
          LET A == Sent(P, [call |-> "auth", granted |-> Granted(auth)])
          IN  IF Granted(auth) = None THEN AuthFailure(A)
              ELSE
                LET T == [A EXCEPT !.jsession_id = auth.body.jsessionId]
                    I == GetServerInfo(T, info)
                    D == GetDevicesOp(I, TRUE, list, rejects)
                    M == IF NoClient(D.mqtt_client) THEN InitializeMqtt(D)
                         ELSE ReinitializeMqtt(D, rejects)
                IN  IF I.exc /= None THEN Return(I, "raise")
                    ELSE Return(M, "True")

\* login(); probe, auth, info, list: the server's responses to the four
\* REST calls, each read only when the call is made
LoginOp(S, probe, auth, info, list, rejects) ==
    LET P == IF Truthy(S.jsession_id) THEN IsSessionTimeout(S, probe)
             ELSE Return(S, "True")
    IN  IF StillValid(S, P) THEN Return(P, None)
        ELSE
          LET A == Sent(P, [call |-> "auth", granted |-> Granted(auth)])
          IN  IF auth.status /= 200 THEN AuthFailure(A)
              ELSE IF ~Has(auth.body, "jsessionId")
                      \/ ~Truthy(auth.body.jsessionId)
              THEN AuthFailure(A)
              ELSE
                LET T == [A EXCEPT !.jsession_id = auth.body.jsessionId]
                    I == GetServerInfo(T, info)
                    M == IF NoClient(I.mqtt_client) THEN InitializeMqtt(I)
                         ELSE ReinitializeMqtt(I, rejects)
                    D == GetDevicesOp(M, TRUE, list, rejects)
                IN  IF I.exc /= None THEN Return(I, "raise")
                    ELSE Return(D, "True")

\* _publish_mqtt(topic, payload); outcome is what paho reports for the
\* message: "acked" (wait_for_publish returns) or "queue_full"
\* (wait_for_publish raises ValueError).  "return r.is_published" returns
\* the attribute is_published of paho's MQTTMessageInfo, which is a method:
\* the value returned is that bound method, written "is_published"
PublishMqtt(S, topic, payload, outcome) ==
    IF NoClient(S.mqtt_client) THEN Return(S, "False")
    ELSE
      LET S1a == Sent(S, [call |-> "publish", topic |-> topic,
                          payload |-> payload])
      IN  IF outcome = "acked" THEN Return(S1a, "is_published")
          ELSE Return(S1a, "False")

-----------------------------------------------------------------------------
(* What the environment can supply *)

UUIDs == {"A", "B"}

Tokens == {"t1", "t2"}

AttrNames == {"switch", "brightness", "productCode", "color", "toggle"}

Values == {S1, S55, SX}

NoResponse == [status |-> 0, body |-> EmptyObj]

ProbeResponses ==
    {[status |-> 200, body |-> [info |-> "OK"]],
     [status |-> 200, body |-> [info |-> "TIMEOUT"]],
     [status |-> 200, body |-> EmptyObj],
     [status |-> 500, body |-> EmptyObj]}

AuthResponses ==
    {[status |-> 200, body |-> [jsessionId |-> t]] : t \in Tokens \cup {""}}
    \cup {[status |-> 200, body |-> EmptyObj],
          [status |-> 401, body |-> EmptyObj]}

\* inceptionAddr as urlparse splits it; [empty |-> TRUE] is the empty string
InceptionAddrs ==
    {[netloc |-> [host |-> "eu-mqtt"], path |-> "/mqtt"],
     [netloc |-> [host |-> "h2", port |-> <<"8", "0">>], path |-> "/ws"],
     [empty |-> TRUE]}

InfoResponses ==
    {[status |-> 200, body |-> [inceptionAddr |-> a]] : a \in InceptionAddrs}
    \cup {[status |-> 500, body |-> EmptyObj]}

TypeCodeA19 == <<"a", "1", "9">>

Record(u, attrs) ==
    [deviceUuid |-> u, category |-> "wifielement", typeCode |-> TypeCodeA19,
     attributeList |-> attrs]

Attr(n, v) == [name |-> n, value |-> v]

\* the device records of the directory responses
Records == {Record(u, <<Attr("switch", SX)>>) : u \in UUIDs}

SeqsUpTo(S, n) == UNION {[1..k -> S] : k \in 0..n}

ListResponses ==
    {[status |-> 200, body |-> [deviceList |-> l]] :
        l \in SeqsUpTo(Records, MaxList)}
    \cup {[status |-> 200, body |-> EmptyObj],
          [status |-> 500, body |-> EmptyObj]}

StatusTopics == {StatusTopic(u) : u \in UUIDs}

\* status entries of inbound payloads: complete ones, and ones lacking a key
Entries ==
    [dn : UUIDs, type : AttrNames, value : Values]
    \cup {[dn |-> u, type |-> "switch"] : u \in UUIDs}
    \cup {[type |-> "switch", value |-> S1], [dn |-> "A", value |-> S1]}

\* the entries that follow the first one in a longer payload
FollowUps ==
    {[dn |-> "A", type |-> "switch", value |-> S1],
     [dn |-> "B", type |-> "switch", value |-> S55],
     [dn |-> "A", type |-> "brightness", value |-> SX]}

Payloads ==
    {<<>>} \cup {<<e>> \o t : e \in Entries,
                              t \in SeqsUpTo(FollowUps, MaxEntries - 1)}

Messages ==
    {[json |-> FALSE]} \cup {[json |-> TRUE, data |-> d] : d \in Payloads}

PublishOutcomes == {"acked", "queue_full"}

Levels == {-10, 0, 55, 100, 150}

-----------------------------------------------------------------------------
(* The state machine *)

State ==
    [jsession_id |-> jsession_id, mqtt_server |-> mqtt_server,
     mqtt_client |-> mqtt_client, devices |-> devices,
     subscribed |-> subscribed, net |-> <<>>, ret |-> None, exc |-> None]

\* the caller's thread is in none of the client's calls
Idle == [pc |-> "idle"]

\* SengledClient.__init__
Init ==
    /\ jsession_id = None
    /\ mqtt_server = DefaultServer
    /\ mqtt_client = NoMqtt
    /\ devices = <<>>
    /\ subscribed = <<>>
    /\ last = [op |-> "init", arg |-> EmptyObj, ret |-> None, net |-> <<>>,
               notes |-> <<>>, exc |-> None]
    /\ running = <<>>
    /\ caller = Idle

\* the client after a call that led to S, and what the call showed
Effect(S, op, arg, notes) ==
    /\ jsession_id' = S.jsession_id
    /\ mqtt_server' = S.mqtt_server
    /\ mqtt_client' = S.mqtt_client
    /\ devices' = S.devices
    /\ subscribed' = S.subscribed
    /\ last' = [op |-> op, arg |-> arg, ret |-> S.ret, net |-> S.net,
                notes |-> notes, exc |-> S.exc]

\* a call that runs from start to end on the caller's thread while no
\* handler starts or ends
Commit(S, op, arg, notes) ==
    /\ Effect(S, op, arg, notes)
    /\ UNCHANGED <<running, caller>>

\* the status topics of the devices of a response that have no proxy yet
NewTopics(list) ==
    IF list.status = 200 /\ Has(list.body, "deviceList")
    THEN {StatusTopic(list.body.deviceList[k].deviceUuid) :
            k \in 1..Len(list.body.deviceList)}
         \ {StatusTopic(devices[i].uuid) : i \in 1..Len(devices)}
    ELSE {}

AuthOk(auth) ==
    auth.status = 200 /\ Has(auth.body, "jsessionId")
    /\ Truthy(auth.body.jsessionId)

TimedOut(probe) == IsSessionTimeout(State, probe).ret = "True"

\* login() while the probe finds the session alive
LoginStillValid ==
    /\ Truthy(jsession_id)
    /\ \E probe \in ProbeResponses :
         /\ ~TimedOut(probe)
         /\ Commit(LoginOp(State, probe, NoResponse, NoResponse, NoResponse,
                           {}),
                   "login", EmptyObj, <<>>)

\* login() that authenticates: there is no token, or the probe finds the
\* session timed out (login reads nothing else of the probe's response)
LoginAuth ==
    /\ (Truthy(jsession_id) => {r \in ProbeResponses : TimedOut(r)} /= {})
    /\ LET probe == IF Truthy(jsession_id)
                    THEN CHOOSE r \in ProbeResponses : TimedOut(r)
                    ELSE NoResponse
       IN  \E auth \in AuthResponses :
             IF ~AuthOk(auth)
             THEN Commit(LoginOp(State, probe, auth, NoResponse, NoResponse,
                                 {}),
                         "login", EmptyObj, <<>>)
             ELSE
               \E info \in InfoResponses, list \in ListResponses :
                 \E rejects \in SUBSET (Topics(subscribed)
                                          \cup NewTopics(list)) :
                   Commit(LoginOp(State, probe, auth, info, list, rejects),
                          "login", EmptyObj, <<>>)

Login == LoginStillValid \/ LoginAuth

\* get_devices(force_update)
GetDevices ==
    \E force_update \in BOOLEAN, list \in ListResponses :
      \E rejects \in SUBSET NewTopics(list) :
        Commit(GetDevicesOp(State, force_update, list, rejects),
             "get_devices", [force_update |-> force_update], <<>>)

\* SengledBulb.set_attribute_update_callback(callback)
SetCallback ==
    \E i \in 1..Len(devices) :
      Commit([State EXCEPT !.devices[i].callback = "update_property"],
             "set_attribute_update_callback", [inst |-> devices[i].inst], <<>>)

\* SengledBulb.toggle(on)
Toggle ==
    \E i \in 1..Len(devices), on \in BOOLEAN, outcome \in PublishOutcomes :
      Commit(PublishMqtt(State, UpdateTopic(devices[i].uuid),
                         ToggleData(devices[i], on), outcome),
             "toggle", [inst |-> devices[i].inst, on |-> on], <<>>)

\* SengledBulb.set_brightness(level)
SetBrightness ==
    \E i \in 1..Len(devices), level \in Levels, outcome \in PublishOutcomes :
      Commit(PublishMqtt(State, UpdateTopic(devices[i].uuid),
                         BrightnessData(devices[i], level), outcome),
             "set_brightness", [inst |-> devices[i].inst, level |-> level],
             <<>>)

\* index in self._devices of the proxy object inst
DeviceIndex(devs, inst) == CHOOSE i \in 1..Len(devs) : devs[i].inst = inst

\* on_message(client, userdata, msg) on the receive loop's thread; an
\* exception leaving the handler ends that thread
OnMessage(S, topic, message) ==
    IF topic \notin Topics(S.subscribed)
    THEN [S EXCEPT !.ret = [attributes |-> <<>>, notes |-> <<>>, exc |-> None]]
    ELSE
      LET i == DeviceIndex(S.devices, Lookup(S.subscribed, topic))
          u == UpdateStatus(S.devices[i], message)
      IN  [S EXCEPT !.devices[i].attributes = u.attributes,
                    !.mqtt_client.loop = (u.exc = None),
                    !.exc = u.exc,
                    !.ret = u]

\* the device identifiers the entries of a payload carry
Dns(message) ==
    IF ~message.json THEN {}
    ELSE {message.data[k].dn :
            k \in {j \in 1..Len(message.data) : Has(message.data[j], "dn")}}

Deliver ==
    /\ ~NoClient(mqtt_client)
    /\ mqtt_client.loop
    /\ \E topic \in StatusTopics, message \in Messages :
         LET S == OnMessage(State, topic, message)
         IN  Commit([S EXCEPT !.ret = None], "on_message",
                    [topic |-> topic, dns |-> Dns(message)], S.ret.notes)

\* the session and the directory, driven by the caller's thread
Next ==
    \/ Login
    \/ GetDevices

Spec == Init /\ [][Next]_vars

-----------------------------------------------------------------------------
(* The proxies under inbound traffic: the client has logged in once and     *)
(* its directory holds the proxies of one response; from there the receive  *)
(* loop delivers payloads while the host registers observers and commands.  *)

L1 == <<Attr("switch", SX), Attr("brightness", S55)>>
L2 == <<Attr("productCode", SX), Attr("toggle", SX)>>
L3 == <<Attr("color", SX)>>

BulbLists ==
    {<<Record("A", l)>> : l \in {L1, L2, L3}}
    \cup {<<Record("A", L1), Record("B", L3)>>}

FirstLogin(list) ==
    LoginOp([jsession_id |-> None, mqtt_server |-> DefaultServer,
             mqtt_client |-> NoMqtt, devices |-> <<>>, subscribed |-> <<>>,
             net |-> <<>>, ret |-> None, exc |-> None],
            NoResponse,
            [status |-> 200, body |-> [jsessionId |-> "t1"]],
            [status |-> 500, body |-> EmptyObj],
            [status |-> 200, body |-> [deviceList |-> list]],
            {})

InitBulb ==
    \E list \in BulbLists :
      LET S == FirstLogin(list)
      IN  /\ jsession_id = S.jsession_id
          /\ mqtt_server = S.mqtt_server
          /\ mqtt_client = S.mqtt_client
          /\ devices = S.devices
          /\ subscribed = S.subscribed
          /\ last = [op |-> "login", arg |-> EmptyObj, ret |-> S.ret,
                     net |-> S.net, notes |-> <<>>, exc |-> S.exc]
          /\ running = <<>>
          /\ caller = Idle

NextBulb ==
    \/ SetCallback
    \/ Toggle
    \/ SetBrightness
    \/ Deliver

SpecBulb == InitBulb /\ [][NextBulb]_vars

-----------------------------------------------------------------------------
(* The receive loop against the caller's thread.  paho runs on_message on   *)
(* the one thread loop_start() creates, one message at a time; an          *)
(* execution of the handler is in progress from its dispatch to its        *)
(* return.  The caller's thread runs the client's calls; login() with a    *)
(* reconnect is cut at loop_stop(), which asks the loop thread to end and  *)
(* joins it, so that handlers can be in progress while login() waits.      *)
(* running holds an entry [inst, topic, message, current] per execution in *)
(* progress, current telling whether its thread is the one the last        *)
(* loop_start() created.                                                   *)

\* the payload made of the one entry e
Single(e) == [json |-> TRUE, data |-> <<e>>]

\* a probe response that makes _is_session_timeout report a timeout
TimeoutProbe == [status |-> 200, body |-> [info |-> "TIMEOUT"]]

\* _get_server_info returns early: the status is not 200, or inceptionAddr
\* is missing or empty
ResolutionFails(r) ==
    \/ r.status /= 200
    \/ ~Has(r.body, "inceptionAddr")
    \/ ~Has(r.body.inceptionAddr, "netloc")

\* loop_stop() returning at once, without joining the loop thread
JoinedAtOnce(r) == TRUE

\* loop_stop() on the caller's thread returns when the loop thread has
\* ended, that is when no handler is in progress on it
Joined(r) == r = <<>>

\* the inbound payloads of this specification
LoopMessages ==
    {[json |-> FALSE]}
    \cup {Single(e) : e \in [dn : UUIDs, type : {"switch"}, value : {S1}]}
    \cup {Single([dn |-> "A", type |-> "switch"])}

\* the directory responses of this specification
LoopLists ==
    {[status |-> 200, body |-> [deviceList |-> <<r>>]] : r \in Records}
    \cup {[status |-> 500, body |-> EmptyObj]}

\* the endpoint responses of this specification: a failure and a new
\* endpoint
LoopInfos ==
    {r \in InfoResponses :
       \/ r.status /= 200
       \/ /\ ~ResolutionFails(r)
          /\ Has(r.body.inceptionAddr.netloc, "port")}

\* the brightness levels of this specification
LoopLevels == {55, 150}

\* r without its k-th element
RemoveAt(r, k) == SubSeq(r, 1, k - 1) \o SubSeq(r, k + 1, Len(r))

\* the executions in progress, none of them on the current loop thread
Orphaned(r) == [k \in 1..Len(r) |-> [r[k] EXCEPT !.current = FALSE]]

\* on_message dispatches a message to the handler registered for its topic
HandlerBegin ==
    /\ ~NoClient(mqtt_client)
    /\ mqtt_client.loop
    /\ \A k \in 1..Len(running) : ~running[k].current
    /\ \E topic \in StatusTopics, message \in LoopMessages :
         /\ topic \in Topics(subscribed)
         /\ running' = Append(running,
                              [inst    |-> Lookup(subscribed, topic),
                               topic   |-> topic,
                               message |-> message,
                               current |-> TRUE])
    /\ UNCHANGED <<jsession_id, mqtt_server, mqtt_client, devices,
                   subscribed, last, caller>>

\* the handler runs _update_status and returns, or raises and ends its
\* thread
HandlerEnd ==
    \E k \in 1..Len(running) :
      LET e == running[k]
          i == DeviceIndex(devices, e.inst)
          u == UpdateStatus(devices[i], e.message)
      IN  /\ devices' = [devices EXCEPT ![i].attributes = u.attributes]
          /\ mqtt_client' =
               IF e.current /\ u.exc /= None
               THEN [mqtt_client EXCEPT !.loop = FALSE]
               ELSE mqtt_client
          /\ running' = RemoveAt(running, k)
          /\ last' = [op |-> "on_message",
                      arg |-> [topic |-> e.topic, dns |-> Dns(e.message)],
                      ret |-> None, net |-> <<>>, notes |-> u.notes,
                      exc |-> u.exc]
          /\ UNCHANGED <<jsession_id, mqtt_server, subscribed, caller>>

\* login() on a client with a channel, up to loop_stop() in
\* _reinitialize_mqtt: the probe reports a timeout, the authentication
\* grants a token, the endpoint is resolved, the loop thread is told to end
LoginStop ==
    /\ caller = Idle
    /\ ~NoClient(mqtt_client)
    /\ \E auth \in {a \in AuthResponses : AuthOk(a)}, info \in LoopInfos :
         LET P == IsSessionTimeout(State, TimeoutProbe)
             A == Sent(P, [call |-> "auth", granted |-> Granted(auth)])
             T == [A EXCEPT !.jsession_id = auth.body.jsessionId]
             I == GetServerInfo(T, info)
         IN  /\ jsession_id' = I.jsession_id
             /\ mqtt_server' = I.mqtt_server
             /\ mqtt_client' = [mqtt_client EXCEPT !.loop = FALSE]
             /\ caller' = [pc |-> "join", net |-> I.net]
    /\ UNCHANGED <<devices, subscribed, last, running>>

\* the rest of that login(): the join is over, then disconnect, reconnect,
\* loop_start, the replay of the registry and the directory refresh
LoginResume ==
    /\ caller.pc = "join"
    /\ Joined(running)
    /\ \E list \in LoopLists :
         LET S == [State EXCEPT !.net = caller.net]
             M == ReinitializeMqtt(S, {})
             D == GetDevicesOp(M, TRUE, list, {})
         IN  Effect(Return(D, "True"), "login", EmptyObj, <<>>)
    /\ running' = Orphaned(running)
    /\ caller' = Idle

\* the other calls of the caller's thread, made while it is not in login()
LoopGetDevices ==
    /\ caller = Idle
    /\ \E list \in LoopLists :
         Commit(GetDevicesOp(State, TRUE, list, {}),
                "get_devices", [force_update |-> TRUE], <<>>)

LoopSetCallback == caller = Idle /\ SetCallback

LoopToggle ==
    /\ caller = Idle
    /\ \E i \in 1..Len(devices), on \in BOOLEAN :
         Commit(PublishMqtt(State, UpdateTopic(devices[i].uuid),
                            ToggleData(devices[i], on), "acked"),
                "toggle", [inst |-> devices[i].inst, on |-> on], <<>>)

LoopSetBrightness ==
    /\ caller = Idle
    /\ \E i \in 1..Len(devices), level \in LoopLevels :
         Commit(PublishMqtt(State, UpdateTopic(devices[i].uuid),
                            BrightnessData(devices[i], level), "acked"),
                "set_brightness", [inst |-> devices[i].inst, level |-> level],
                <<>>)

InitLoop ==
    \E list \in {<<Record("A", L1)>>, <<Record("A", L1), Record("B", L3)>>} :
      LET S == FirstLogin(list)
      IN  /\ jsession_id = S.jsession_id
          /\ mqtt_server = S.mqtt_server
          /\ mqtt_client = S.mqtt_client
          /\ devices = S.devices
          /\ subscribed = S.subscribed
          /\ last = [op |-> "login", arg |-> EmptyObj, ret |-> S.ret,
                     net |-> S.net, notes |-> <<>>, exc |-> S.exc]
          /\ running = <<>>
          /\ caller = Idle

NextLoop ==
    \/ HandlerBegin
    \/ HandlerEnd
    \/ LoginStop
    \/ LoginResume
    \/ LoopGetDevices
    \/ LoopSetCallback
    \/ LoopToggle
    \/ LoopSetBrightness

SpecLoop == InitLoop /\ [][NextLoop]_vars

-----------------------------------------------------------------------------
(* Properties *)

\* positions in a call's log of the interactions of one kind
Calls(l, c) == {k \in 1..Len(l.net) : l.net[k].call = c}

\* positions in a call's log of the subscribe requests for topic t
SubscribesTo(l, t) ==
    {k \in 1..Len(l.net) : l.net[k].call = "subscribe" /\ l.net[k].topic = t}

ClientState == <<jsession_id, mqtt_server, mqtt_client, devices, subscribed>>

\* the probe's response says the session is alive
ProbeSaysValid(r) == r.status = 200 /\ Has(r.body, "info") /\ r.body.info = "OK"

\* the call just made was login() with a token whose probe said "alive"
LoginWithValidToken(l) ==
    /\ l.op = "login"
    /\ Len(l.net) > 0
    /\ l.net[1].call = "probe"
    /\ ProbeSaysValid(l.net[1].resp)

\* C1: a login that reconnects the channel (_reinitialize_mqtt) issues, after
\* the reconnect, exactly one subscribe request for every topic the registry
\* held before, an accepted request making the topic active on the new
\* connection; every old registry item is still there with its handler, and
\* the only items added by the call belong to proxies the call constructed.
C1_ReconnectReplaysRegistry ==
    [][ (last'.op = "login" /\ Calls(last', "reconnect") /= {}) =>
          /\ Cardinality(Calls(last', "reconnect")) = 1
          /\ Len(subscribed') >= Len(subscribed)
          /\ \A i \in 1..Len(subscribed) :
               LET t == subscribed[i].topic
               IN  /\ subscribed'[i] = subscribed[i]
                   /\ Cardinality(SubscribesTo(last', t)) = 1
                   /\ \A k \in SubscribesTo(last', t) :
                        /\ \A r \in Calls(last', "reconnect") : k > r
                        /\ last'.net[k].ok <=> (t \in mqtt_client'.subs)
          /\ \A j \in (Len(subscribed) + 1)..Len(subscribed') :
               subscribed'[j].handler > Len(devices)
      ]_vars

\* C1 witness: a login reconnected a channel whose registry held both status
\* topics, and both were requested again after the reconnect
C1_Witness ==
    /\ last.op = "login"
    /\ Len(subscribed) = 2
    /\ \E r \in Calls(last, "reconnect") :
         \A i \in 1..2 :
           \E k \in SubscribesTo(last, subscribed[i].topic) : k > r

\* C2: login() with a token the probe reports alive makes no network call
\* but the probe and leaves token, endpoint, channel, registry and
\* directory as they were.
C2_LoginValidTokenNoop ==
    [][ LoginWithValidToken(last') =>
          /\ UNCHANGED ClientState
          /\ Len(last'.net) = 1
      ]_vars

\* C2 witness: such a login on a client that is connected and has proxies
C2_Witness ==
    /\ LoginWithValidToken(last)
    /\ ~NoClient(mqtt_client)
    /\ Len(devices) = 2
    /\ Len(subscribed) > 0

\* C3 (as claimed): login() with a token the probe reports alive returns True.
C3_LoginValidReturnsTrue ==
    LoginWithValidToken(last) => last.ret = "True"

\* C4: when the authentication response grants no token (not a 200, or no
\* or an empty jsessionId), login() returns False, leaves token, endpoint,
\* channel, registry and directory as they were, and makes no call after
\* the authentication request.
C4_AuthFailureLeavesState ==
    [][ (last'.op = "login"
         /\ \E k \in Calls(last', "auth") : last'.net[k].granted = None) =>
          /\ last'.ret = "False"
          /\ UNCHANGED ClientState
          /\ \A k \in 1..Len(last'.net) : last'.net[k].call \in {"probe", "auth"}
      ]_vars

\* C4 witness: a refused re-login of a client that holds a token, a channel
\* and proxies
C4_Witness ==
    /\ last.op = "login"
    /\ \E k \in Calls(last, "auth") : last.net[k].granted = None
    /\ Truthy(jsession_id)
    /\ ~NoClient(mqtt_client)
    /\ Len(devices) > 0

\* C5: the directory never holds two proxies with one device identifier.
C5_OneProxyPerIdentifier ==
    \A i, j \in 1..Len(devices) :
      devices[i].uuid = devices[j].uuid => i = j

\* C5 witness: a forced refresh whose response carried the same identifier
\* more than once left the directory with a single proxy
C5_Witness ==
    /\ last.op = "get_devices"
    /\ last.arg.force_update
    /\ \E k \in Calls(last, "list") : last.net[k].n >= 2
    /\ Len(devices) = 1

\* C6: a proxy in the directory is in it, the same object for the same
\* identifier, after every step.
C6_DirectoryOnlyGrows ==
    [][ /\ Len(devices') >= Len(devices)
        /\ \A i \in 1..Len(devices) :
             \E j \in 1..Len(devices') :
               /\ devices'[j].inst = devices[i].inst
               /\ devices'[j].uuid = devices[i].uuid
      ]_vars

\* C6 witness: a forced refresh whose response held a single, known device
\* while the directory holds two proxies
C6_Witness ==
    /\ last.op = "get_devices"
    /\ last.arg.force_update
    /\ \E k \in Calls(last, "list") : last.net[k].n = 1
    /\ Calls(last, "subscribe") = {}
    /\ Len(devices) = 2

\* the handler's starting point on proxy p: its store, no observer call yet
Acc0(p) == [attributes |-> p.attributes, notes |-> <<>>, exc |-> None]

\* C7: a status entry whose dn is not the proxy's identifier leaves the
\* proxy's store as it is, notifies nobody and raises nothing, whatever its
\* type and value; a payload none of whose entries names the proxy does the
\* same; and a delivery whose payload does not name a proxy changes no field
\* of that proxy and makes no observer call for it.
C7_ForeignDnIsFrame ==
    /\ [](\A i \in 1..Len(devices) :
            LET p == devices[i]
            IN  /\ \A e \in Entries :
                     (Has(e, "dn") /\ e.dn /= p.uuid) =>
                        ApplyStatus(p, Acc0(p), e) = Acc0(p)
                /\ \A m \in Messages :
                     (m.json /\ p.uuid \notin Dns(m)) =>
                        UpdateStatus(p, m) = Acc0(p))
    /\ [][ last'.op = "on_message" =>
             \A i \in 1..Len(devices) :
               devices[i].uuid \notin last'.arg.dns =>
                 /\ devices'[i] = devices[i]
                 /\ \A k \in 1..Len(last'.notes) :
                      last'.notes[k].inst /= devices[i].inst
         ]_vars

\* C7 witness: the handler of proxy A, which has a store and an observer,
\* has processed a payload whose entries all name device B
C7_Witness ==
    /\ last.op = "on_message"
    /\ last.arg.topic = StatusTopic("A")
    /\ last.arg.dns = {"B"}
    /\ \E i \in 1..Len(devices) :
         /\ devices[i].uuid = "A"
         /\ devices[i].callback /= Unset
         /\ devices[i].attributes /= <<>>

\* the status push that echoes "switch on" for device u
SwitchPush(u) ==
    [json |-> TRUE,
     data |-> <<[dn |-> u, type |-> "switch", value |-> S1]>>]

\* toggle(True) has just run on a proxy that has an observer and a switch
\* attribute
ToggledOn(p) ==
    /\ last.op = "toggle"
    /\ last.arg.inst = p.inst
    /\ last.arg.on
    /\ p.callback /= Unset
    /\ FirstIndex(p.attributes, "switch") /= 0

\* C8: toggle itself changes no proxy and calls no observer; toggle(True)
\* publishes the command {dn, type "switch", value "1"} on the device's
\* update topic, and the status push [{dn, "switch", "1"}] handled next
\* leaves the switch accessor true with exactly one observer call,
\* ("switch", True).
C8_ToggleThenPush ==
    /\ [][ last'.op = "toggle" =>
             (UNCHANGED ClientState /\ last'.notes = <<>>) ]_vars
    /\ [](\A i \in 1..Len(devices) :
            LET p == devices[i]
                u == UpdateStatus(p, SwitchPush(p.uuid))
            IN  ToggledOn(p) =>
                  /\ last.net =
                       <<[call |-> "publish", topic |-> UpdateTopic(p.uuid),
                          payload |-> [dn |-> p.uuid, type |-> "switch",
                                       value |-> S1, time |-> "now"]]>>
                  /\ switch([p EXCEPT !.attributes = u.attributes])
                       = [bool |-> TRUE]
                  /\ u.notes = <<[inst |-> p.inst, name |-> "switch",
                                  value |-> [bool |-> TRUE]]>>
                  /\ u.exc = None)

\* C8 witness: toggle(True) has run on a proxy with an observer whose switch
\* attribute still reads off
C8_Witness ==
    \E i \in 1..Len(devices) :
      /\ ToggledOn(devices[i])
      /\ switch(devices[i]) = [bool |-> FALSE]
      /\ last.ret = "is_published"

\* C9 (as claimed): every observer call names a read accessor of the proxy.
C9_NotifiedNamesAreAccessors ==
    \A k \in 1..Len(last.notes) : last.notes[k].name \in PropertyNames

\* what a raw value v reads as through the accessor called pname
Decoded(pname, v) ==
    IF pname \in {"brightness", "consumption_time", "rssi"} THEN ParseInt(v)
    ELSE IF pname \in {"online", "save_flag", "switch"}
    THEN [bool |-> (v = S1)]
    ELSE [str |-> v]

\* C10 (as claimed): when an applied delta {type n, value v} makes the
\* observer be called with an accessor's name, the value passed is v as that
\* accessor decodes it.
C10_NotifiedValueIsDecodedDelta ==
    \A i \in 1..Len(devices) :
      LET p == devices[i]
      IN  p.callback /= Unset =>
            \A n \in AttrNames, v \in Values :
              LET u == UpdateStatus(p,
                         [json |-> TRUE,
                          data |-> <<[dn |-> p.uuid, type |-> n,
                                      value |-> v]>>])
              IN  \A k \in 1..Len(u.notes) :
                    u.notes[k].name \in PropertyNames =>
                      u.notes[k].value = Decoded(u.notes[k].name, v)

\* the accessors by the type they return
IntAccessors == {"brightness", "consumption_time", "rssi"}
BoolAccessors == {"online", "save_flag", "switch"}
StrAccessors ==
    {"identify_no", "ip", "name", "product_code", "start_time",
     "support_attributes", "time_zone", "type_code", "version"}

\* the store name each accessor looks up
ReadsAttr(a) ==
    CASE a = "consumption_time" -> "consumptionTime"
      [] a = "rssi"             -> "deviceRssi"
      [] a = "identify_no"      -> "identifyNO"
      [] OTHER                  -> a

\* the store of proxy p has no attribute for accessor a
Missing(p, a) == FirstIndex(p.attributes, ReadsAttr(a)) = 0

\* C11 (as claimed): an accessor whose attribute is missing from the store
\* returns 0, the empty string or false according to its type.
C11_MissingGivesTypedDefault ==
    \A i \in 1..Len(devices) :
      LET p == devices[i]
      IN  /\ \A a \in IntAccessors :
               Missing(p, a) => GetAttr(p, a) = [int |-> 0]
          /\ \A a \in StrAccessors :
               Missing(p, a) => GetAttr(p, a) = [str |-> <<>>]
          /\ \A a \in BoolAccessors :
               Missing(p, a) => GetAttr(p, a) = [bool |-> FALSE]

\* C11 (amended): an accessor whose attribute is missing from the store
\* returns 0 for the integer accessors, false for the boolean ones and the
\* empty string for the string ones except type_code, which returns the
\* typeCode of the device record; none of them fails.
C11_MissingGivesDefaultOrTypeCode ==
    \A i \in 1..Len(devices) :
      LET p == devices[i]
      IN  /\ \A a \in IntAccessors :
               Missing(p, a) => GetAttr(p, a) = [int |-> 0]
          /\ \A a \in StrAccessors \ {"type_code"} :
               Missing(p, a) => GetAttr(p, a) = [str |-> <<>>]
          /\ \A a \in BoolAccessors :
               Missing(p, a) => GetAttr(p, a) = [bool |-> FALSE]
          /\ Missing(p, "type_code") =>
               GetAttr(p, "type_code") = [str |-> p.type_code]

\* C11 witness: after inbound traffic, a proxy whose store has a switch but
\* no brightness, rssi or type_code attribute
C11_Witness ==
    /\ last.op = "on_message"
    /\ \E i \in 1..Len(devices) :
         /\ Missing(devices[i], "brightness")
         /\ Missing(devices[i], "rssi")
         /\ Missing(devices[i], "type_code")
         /\ devices[i].type_code /= <<>>
         /\ devices[i].attributes /= <<>>

\* the decimal string of min(max(level, 0), 100) for the levels tried
ClampedString(level) ==
    CASE level = -10 -> <<"0">>
      [] level = 0   -> <<"0">>
      [] level = 55  -> <<"5", "5">>
      [] level = 100 -> <<"1", "0", "0">>
      [] level = 150 -> <<"1", "0", "0">>

\* C12: set_brightness(level) on a connected client sends exactly one
\* publish, to the device's update topic, of the command {dn, type
\* "brightness", value}, where value is the decimal string of
\* min(max(level, 0), 100) and so reads as a number in 0..100; the call
\* changes nothing in the client and returns what the publish returned.
C12_BrightnessClamped ==
    [][ last'.op = "set_brightness" =>
          \E i \in 1..Len(devices) :
            LET p == devices[i]
                level == last'.arg.level
            IN  /\ p.inst = last'.arg.inst
                /\ Len(last'.net) = 1
                /\ last'.net[1].call = "publish"
                /\ last'.net[1].topic = UpdateTopic(p.uuid)
                /\ last'.net[1].payload.dn = p.uuid
                /\ last'.net[1].payload.type = "brightness"
                /\ last'.net[1].payload.value = ClampedString(level)
                /\ ParseInt(last'.net[1].payload.value).int \in 0..100
                /\ \E outcome \in PublishOutcomes :
                     last'.ret =
                       PublishMqtt(State, last'.net[1].topic,
                                   last'.net[1].payload, outcome).ret
                /\ UNCHANGED ClientState
      ]_vars

\* C12 witness: set_brightness(150) has been published and acknowledged
C12_Witness ==
    /\ last.op = "set_brightness"
    /\ last.arg.level = 150
    /\ Len(last.net) = 1
    /\ last.net[1].payload.value = <<"1", "0", "0">>
    /\ last.ret /= "False"

\* the connect and reconnect requests in the log of the call that led to S
ChannelCalls(S) ==
    {k \in 1..Len(S.net) : S.net[k].call \in {"connect", "reconnect"}}

\* C13 (as claimed): from every state the client can be in, a login that
\* authenticates and whose endpoint resolution fails leaves the stored
\* endpoint as it was and then connects or reconnects the channel to that
\* stored endpoint (host, port and path); and one whose resolution succeeds
\* with a URI without a port stores port 443.
C13_FailedResolutionKeepsEndpoint ==
    \A auth \in {a \in AuthResponses : AuthOk(a)},
       info \in InfoResponses, list \in ListResponses :
      LET S  == [State EXCEPT !.net = <<>>]
          S2 == LoginOp(S, TimeoutProbe, auth, info, list, {})
      IN  /\ ResolutionFails(info) =>
               /\ S2.mqtt_server = mqtt_server
               /\ S2.ret = "True"
               /\ Cardinality(ChannelCalls(S2)) = 1
               /\ \A k \in ChannelCalls(S2) :
                    /\ S2.net[k].host = mqtt_server.host
                    /\ S2.net[k].port = mqtt_server.port
                    /\ S2.net[k].path = mqtt_server.path
          /\ (~ResolutionFails(info)
              /\ ~Has(info.body.inceptionAddr.netloc, "port")) =>
               S2.mqtt_server.port = 443

\* the probe of this call reported the session timed out
ProbeTimedOut(l) ==
    \E k \in Calls(l, "probe") : ~ProbeSaysValid(l.net[k].resp)

\* C15 (as claimed): a login that found the token timed out and whose
\* re-authentication was refused leaves the client without a token.
C15_ExpiredTokenCleared ==
    [][ ( /\ last'.op = "login"
          /\ ProbeTimedOut(last')
          /\ \E k \in Calls(last', "auth") : last'.net[k].granted = None )
        => ~Truthy(jsession_id')
      ]_vars

\* C14 (as claimed): toggle and set_brightness, which return what publish
\* returns, return True or False and raise nothing.
C14_PublishReturnsBoolean ==
    last.op \in {"toggle", "set_brightness"} =>
      /\ last.ret \in {"True", "False"}
      /\ last.exc = None

\* a payload that does not parse, or whose only entry has dn and type but
\* no value
Malformed(m) ==
    \/ ~m.json
    \/ /\ Len(m.data) = 1
       /\ Has(m.data[1], "dn") /\ Has(m.data[1], "type")
       /\ ~Has(m.data[1], "value")

\* C16 (as claimed): the inbound handler of every proxy returns from a
\* malformed payload with the store as it was, no observer call and no
\* exception.
C16_MalformedDiscarded ==
    \A i \in 1..Len(devices) :
      \A m \in Messages :
        Malformed(m) => UpdateStatus(devices[i], m) = Acc0(devices[i])

\* C17 (as claimed): every proxy of the directory has its status topic in
\* the subscription registry, mapped to its own inbound handler.
C17_EveryProxyRegistered ==
    \A i \in 1..Len(devices) :
      /\ StatusTopic(devices[i].uuid) \in Topics(subscribed)
      /\ Lookup(subscribed, StatusTopic(devices[i].uuid)) = devices[i].inst

\* C18 (as claimed): the reconnect of a login goes to the endpoint stored
\* when it is made (host, port and path) and carries the token stored then.
C18_ReconnectUsesLatest ==
    [][ last'.op = "login" =>
          \A k \in Calls(last', "reconnect") :
            /\ last'.net[k].host = mqtt_server'.host
            /\ last'.net[k].port = mqtt_server'.port
            /\ last'.net[k].path = mqtt_server'.path
            /\ last'.net[k].cookie = jsession_id'
      ]_vars

\* the one position in a call's log of the request of kind c
TheCall(l, c) == CHOOSE k \in Calls(l, c) : TRUE

\* C19: a login that returns True has made, in this order, one
\* authentication request, one endpoint request, one connect (when there was
\* no channel) or reconnect (when there was one) and one directory request;
\* the token the authentication granted is the stored one and is the one
\* the endpoint and directory requests carry; the channel exists afterwards,
\* no subscribe request precedes the connect or reconnect, and the
\* subscribe requests of the proxies the refresh created follow the
\* directory request.
C19_LoginOrder ==
    [][ (last'.op = "login" /\ last'.ret = "True") =>
          LET l == last'
              a == TheCall(l, "auth")
              i == TheCall(l, "info")
              c == TheCall(l, IF NoClient(mqtt_client) THEN "connect"
                              ELSE "reconnect")
              d == TheCall(l, "list")
          IN  /\ Cardinality(Calls(l, "auth")) = 1
              /\ Cardinality(Calls(l, "info")) = 1
              /\ Cardinality(Calls(l, "list")) = 1
              /\ Cardinality(Calls(l, "connect") \cup Calls(l, "reconnect"))
                   = 1
              /\ Calls(l, IF NoClient(mqtt_client) THEN "connect"
                          ELSE "reconnect") /= {}
              /\ a < i /\ i < c /\ c < d
              /\ l.net[a].granted = jsession_id'
              /\ l.net[i].sid = jsession_id'
              /\ l.net[d].sid = jsession_id'
              /\ l.net[c].cookie = jsession_id'
              /\ ~NoClient(mqtt_client')
              /\ \A k \in Calls(l, "subscribe") : k > c
              /\ \A j \in (Len(devices) + 1)..Len(devices') :
                   /\ Cardinality(SubscribesTo(l,
                        StatusTopic(devices'[j].uuid)) \cap (d + 1)..Len(l.net))
                        = 1
      ]_vars

\* C19 witness: a re-login has succeeded with a new token, reconnected the
\* channel and created a proxy whose subscribe followed the directory
\* request
C19_Witness ==
    /\ last.op = "login"
    /\ last.ret = "True"
    /\ Calls(last, "reconnect") /= {}
    /\ Calls(last, "probe") /= {}
    /\ jsession_id = "t2"
    /\ Len(devices) = 2
    /\ \E k \in SubscribesTo(last, StatusTopic(devices[2].uuid)) :
         /\ k > TheCall(last, "list")
         /\ last.net[k].ok

\* C20 (as claimed): on a proxy on which no observer has been registered
\* yet, the inbound handler applies a complete entry for that proxy by
\* updating the matching attribute, calls no observer and raises nothing.
C20_NoObserverNoFault ==
    \A i \in 1..Len(devices) :
      LET p == devices[i]
      IN  p.callback = Unset =>
            \A e \in [dn : {p.uuid}, type : AttrNames, value : Values] :
              LET u == UpdateStatus(p, Single(e))
                  k == FirstIndex(p.attributes, e.type)
              IN  /\ u.exc = None
                  /\ u.notes = <<>>
                  /\ k /= 0 => u.attributes[k].value = e.value

\* the executions of the inbound handler of proxy inst that are in progress
InProgress(r, inst) == {k \in 1..Len(r) : r[k].inst = inst}

\* C21: under every interleaving of the receive loop with the calls of the
\* caller's thread (login with its reconnect, get_devices, toggle,
\* set_brightness, set_attribute_update_callback), at most one execution of
\* a proxy's inbound handler is in progress at any time, and the attribute
\* store of a proxy changes only in the step in which the one execution in
\* progress for it returns; this holds across the stop and restart of the
\* receive loop by a reconnect.
C21_HandlersSerialized ==
    /\ [](\A i \in 1..Len(devices) :
            Cardinality(InProgress(running, devices[i].inst)) <= 1)
    /\ [][ \A i \in 1..Len(devices) :
             devices'[i].attributes /= devices[i].attributes =>
               /\ Cardinality(InProgress(running, devices[i].inst)) = 1
               /\ InProgress(running', devices[i].inst) = {}
         ]_vars

\* C21 witness: after an earlier reconnect, login() waits in loop_stop()
\* for the loop thread while a handler of proxy A is in progress on it
C21_Witness ==
    /\ caller.pc = "join"
    /\ mqtt_client.cookie = "t2"
    /\ Len(running) = 1
    /\ running[1].current
    /\ running[1].topic = StatusTopic("A")

====
